---- MODULE Spec2Model ----
(***************************************************************************)
(* Model of the document ingestion pipeline of parcel-care-assistant:      *)
(* cymbal_agent/tools/knowledge_search_tools.py (chunk_text, stable_uuid,  *)
(* upsert_docs, load/save_mapping, build_and_upsert), and of the retrieval *)
(* tool retrieve_documents of the same file and of rag/tools.              *)
(*                                                                         *)
(* Texts are sequences of one-character strings.  Identifiers (uuid5 of a  *)
(* sha256-derived namespace and a key string) are modelled as the pair     *)
(* <<namespace, key>>: name-based and collision-free.                      *)
(***************************************************************************)
EXTENDS Integers, Sequences, FiniteSets, TLC

VARIABLES
    \* ---- chunk_text, run on its own (SpecChunk) ----
    ck_text,        \* the argument text of chunk_text
    ck_chars,       \* the argument chunk_chars
    ck_overlap,     \* the argument overlap
    ck,             \* the locals of chunk_text: text, n, i, chunks, and the position pc
    \* ---- the services build_and_upsert talks to ----
    bucket,         \* the source objects: file name -> document
    gcs_mapping,    \* the mapping object at mapping_uri: [exists, data]
    local_mapping,  \* the local file vector_mapping.json: [exists, data]
    index,          \* the vector index: datapoint id -> content payload
    \* ---- build_and_upsert, per run ----
    pc,             \* the position of the run in build_and_upsert
    gcs_prefix,     \* the argument gcs_prefix
    files,          \* the local files
    fpos,           \* the position of the loop "for f in files" (1-based)
    existing,       \* the local existing
    mapping,        \* the local mapping
    to_upsert,      \* the local to_upsert: list of <<cid, text>>
    provenance,     \* the local provenance: cid -> [src, i]
    dps,            \* upsert_docs: the local dps, list of [datapoint_id, content]
    bpos,           \* upsert_docs: the batch loop variable i
    id2text,        \* the local id2text
    \* ---- history (not program state) ----
    flts,           \* per run: the faults met so far
    stages,         \* per run: the stages entered so far
    sent,           \* per run: the datapoints the index accepted, in order
    started,        \* per run: gcs_mapping, index and local_mapping when the run began
    prev,           \* the summary of the run that ended before the latest one began
    nruns,          \* the number of runs begun
    \* ---- the identifier of a chunk, computed on its own (SpecKey) ----
    kq,             \* two (source, ordinal) pairs and the gcs_prefix they belong to
    kk,             \* the two identifiers computed for them
    \* ---- retrieve_documents (SpecRetrieve) ----
    rq,             \* what the embedding model and the index answer to the call
    rt,             \* the locals of retrieve_documents, its calls and its outcome
    \* ---- read_gcs_pdf_text, run on its own (SpecPdf) ----
    pdf_doc,        \* the PDF object read
    pdf_out,        \* the outcome of read_gcs_pdf_text
    \* ---- EnterpriseGovernancePlugin (SpecGov) ----
    gctx,           \* context.state, the session state the callbacks read and write
    gturn,          \* where the agent turn is, and the text of the request of the turn
    glog            \* the final rows logged, and what happened in the turn so far

ckvars == <<ck_text, ck_chars, ck_overlap, ck>>

envvars == <<bucket, gcs_mapping, local_mapping, index>>

runvars == <<pc, gcs_prefix, files, fpos, existing, mapping, to_upsert, provenance,
             dps, bpos, id2text>>

histvars == <<flts, stages, sent, started, prev, nruns>>

keyvars == <<kq, kk>>

rtvars == <<rq, rt>>

pdfvars == <<pdf_doc, pdf_out>>

govvars == <<gctx, gturn, glog>>

vars == <<ck_text, ck_chars, ck_overlap, ck, bucket, gcs_mapping, local_mapping, index,
          pc, gcs_prefix, files, fpos, existing, mapping, to_upsert, provenance,
          dps, bpos, id2text, flts, stages, sent, started, prev, nruns, kq, kk, rq, rt,
          pdf_doc, pdf_out, gctx, gturn, glog>>

\* ------------------------------------------------------------------ bounds
MaxTextLen == 4
MaxChunk == 3
MaxOverlap == 4

\* ------------------------------------------------------------------ helpers
Min(a, b) == IF a < b THEN a ELSE b
Max(a, b) == IF a > b THEN a ELSE b

\* ceil(a / b) for a >= 0, b >= 1
CeilDiv(a, b) == (a + b - 1) \div b

Range(s) == {s[k] : k \in DOMAIN s}

\* All sequences over S of length at most n
SeqsUpTo(S, n) == UNION {[1..k -> S] : k \in 0..n}

\* ------------------------------------------------------------------ text
\* The characters str.split() treats as separators (space and newline here).
Whitespace == {" ", "\n"}

Letters == {"a", "b"}

\* Python's s.split(): the maximal runs of non-whitespace characters, in order.
\* (The recursive call takes its arguments through a one-element set, so that each
\* step is evaluated once.)
RECURSIVE SplitAcc(_, _, _)
SplitAcc(s, cur, acc) ==
    IF s = <<>>
    THEN IF cur = <<>> THEN acc ELSE Append(acc, cur)
    ELSE LET flushed == IF cur = <<>> THEN acc ELSE Append(acc, cur)
             step == IF Head(s) \in Whitespace
                     THEN <<Tail(s), <<>>, flushed>>
                     ELSE <<Tail(s), Append(cur, Head(s)), acc>>
         IN CHOOSE res \in {SplitAcc(a[1], a[2], a[3]) : a \in {step}} : TRUE

str_split(s) == SplitAcc(s, <<>>, <<>>)

\* Python's sep.join(words)
RECURSIVE str_join(_, _)
str_join(sep, words) ==
    IF words = <<>> THEN <<>>
    ELSE IF Len(words) = 1 THEN words[1]
    ELSE words[1] \o sep \o str_join(sep, Tail(words))

\* clean_text: " ".join(s.split())
clean_text(s) == str_join(<<" ">>, str_split(s))

\* Python's text[i:end] for 0 <= i (end clamped to len(text), empty when end <= i)
SliceInclusive(text, i, end) == SubSeq(text, i + 1, Min(end + 1, Len(text)))
Slice(text, i, end) == SubSeq(text, i + 1, Min(end, Len(text)))

\* ------------------------------------------------------------------ chunk_text
\* The state of chunk_text after lines 194-199: text cleaned, the empty text returns.
\* starts is a history of the value of i at each append (not a local of the code).
ChunkInit(text) ==
    LET t == clean_text(text) IN
    [text |-> t, n |-> Len(t), i |-> 0, chunks |-> <<>>, starts |-> <<>>,
     pc |-> IF t = <<>> THEN "return" ELSE "while"]

\* The next value of i at the end of one loop iteration (line 205).
NextStartNoProgress(i, end, overlap) == end - overlap
NextStartSkip(i, end, overlap) == Max(end - overlap + 1, i + 1)
NextStartNoOverlap(i, end, overlap) == Max(end, i + 1)
NextStart(i, end, overlap) == Max(end - overlap, i + 1)

\* One evaluation of the loop condition and, if it holds, one iteration (lines 200-205).
ChunkIter(st, chunk_chars, overlap) ==
    IF ~(st.i < st.n)
    THEN [st EXCEPT !.pc = "return"]
    ELSE LET end == Min(st.i + chunk_chars, st.n)
             appended == [st EXCEPT !.chunks = Append(@, Slice(st.text, st.i, end)),
                                    !.starts = Append(@, st.i)]
         IN IF end = st.n
            THEN [appended EXCEPT !.pc = "return"]
            ELSE [appended EXCEPT !.i = NextStart(st.i, end, overlap)]

RECURSIVE ChunkRun(_, _, _)
ChunkRun(st, chunk_chars, overlap) ==
    IF st.pc = "return" THEN st
    ELSE CHOOSE res \in {ChunkRun(nxt, chunk_chars, overlap) :
                            nxt \in {ChunkIter(st, chunk_chars, overlap)}} : TRUE

\* chunk_text as a function: the list it returns.
chunk_text(text, chunk_chars, overlap) ==
    ChunkRun(ChunkInit(text), chunk_chars, overlap).chunks

\* ------------------------------------------------------------------ pipeline data
\* chunk_text(text, chunk_chars=1000, overlap=100) at line 306, scaled down, and
\* BATCH = 100 at line 250, scaled down.
ChunkChars == 3
Overlap == 1
BATCH == 2
MaxRuns == 2
MaxLiveRuns == 1
MaxTokens == 2
MaxOrdinal == 10
MaxMatches == 2
MaxPages == 3
MaxWords == 2
MaxTurns == 2
MaxCalls == 2

Runs == {1, 2}
\* Spec: one run at a time
SeqRuns == {1}

RootR == "gs://bk/r"
RootS == "gs://bk/s"
Roots == {RootR, RootS}
FileA == "gs://bk/r/a.txt"
FileB == "gs://bk/r/b.pdf"
FileC == "gs://bk/s/c.txt"
\* the objects of the bucket, in the order list_blobs yields them
AllFiles == <<FileA, FileB, FileC>>

\* b.name starts with prefix (list_blobs(prefix=...)), over the names above
HasPrefix(f, prefix) ==
    \/ prefix = RootR /\ f \in {FileA, FileB}
    \/ prefix = RootS /\ f = FileC

\* f.lower().endswith(".txt"), over the names above
EndsWithTxt(f) == f \in {FileA, FileC}

EmptyMap == [x \in {} |-> x]

MapPut(m, k, v) == [x \in DOMAIN m \cup {k} |-> IF x = k THEN v ELSE m[x]]

\* dict built by inserting the <<key, value>> pairs of a list in order
RECURSIVE PutAll(_, _)
PutAll(m, pairs) ==
    IF pairs = <<>> THEN m
    ELSE CHOOSE res \in {PutAll(a[1], a[2]) :
                            a \in {<<MapPut(m, Head(pairs)[1], Head(pairs)[2]), Tail(pairs)>>}} :
             TRUE

\* A document: exists (listed), readable (download_as_bytes returns), parsable
\* (PdfReader accepts it), pages (a text document is its single page); a page is
\* [ok, text], ok false when extract_text raises.
GoodPage(t) == [ok |-> TRUE, text |-> t]
BadPage == [ok |-> FALSE, text |-> <<>>]
Absent == [exists |-> FALSE, readable |-> FALSE, parsable |-> FALSE, pages |-> <<>>]
Unreadable == [exists |-> TRUE, readable |-> FALSE, parsable |-> FALSE, pages |-> <<>>]
CorruptPdf == [exists |-> TRUE, readable |-> TRUE, parsable |-> FALSE, pages |-> <<>>]
PdfDoc(pages) == [exists |-> TRUE, readable |-> TRUE, parsable |-> TRUE, pages |-> pages]
TxtDoc(t) == PdfDoc(<<GoodPage(t)>>)

TextLong == <<"a", "b", " ", " ", "c", "d">>
TextShort == <<"a", "b">>
TextBlank == <<" ", "\n">>
PagesB == <<GoodPage(<<"a", "b">>), BadPage, GoodPage(<<"c">>)>>

DocChoices(f) ==
    CASE f = FileA -> {Unreadable, TxtDoc(TextLong), TxtDoc(TextShort), TxtDoc(TextBlank)}
      [] f = FileB -> {Unreadable, CorruptPdf, PdfDoc(PagesB)}
      [] f = FileC -> {Absent, TxtDoc(<<"b">>)}

Buckets == {b \in [Range(AllFiles) -> UNION {DocChoices(f) : f \in Range(AllFiles)}] :
                \A f \in Range(AllFiles) : b[f] \in DocChoices(f)}

\* list_gcs_files: the objects under the prefix with a .pdf or .txt name
list_gcs_files(b, prefix) ==
    SelectSeq(AllFiles, LAMBDA f : b[f].exists /\ HasPrefix(f, prefix))

\* read_gcs_text, for a readable object
read_gcs_text(doc) == doc.pages[1].text

\* read_gcs_pdf_text, for a readable object: "" when the reader rejects the file,
\* else the page texts joined by newlines, "" for a page that fails
read_gcs_pdf_text_abort(doc) ==
    IF ~doc.parsable \/ \E k \in 1..Len(doc.pages) : ~doc.pages[k].ok THEN <<>>
    ELSE str_join(<<"\n">>, [k \in 1..Len(doc.pages) |-> doc.pages[k].text])
read_gcs_pdf_text(doc) ==
    IF ~doc.parsable THEN <<>>
    ELSE str_join(<<"\n">>,
                  [k \in 1..Len(doc.pages) |->
                      IF doc.pages[k].ok THEN doc.pages[k].text ELSE <<>>])

\* uuid.UUID(sha256(gcs_prefix).hexdigest()[0:32])
namespace_per_run(prefix) == <<"uuid4", prefix, nruns>>
namespace_of(prefix) == <<"sha256", prefix>>

\* f"{f}::chunk::{i}"
chunk_key_nosep(f, i) == f \o ToString(i)
chunk_key(f, i) == f \o "::chunk::" \o ToString(i)

\* str(uuid.uuid5(namespace, key))
stable_uuid_per_run(namespace, key) == <<"uuid4", namespace, key, nruns>>
stable_uuid(namespace, key) == <<"uuid5", namespace, key>>

\* lines 301-306: the text of a readable file, chunked
extract_chunks(f, doc) ==
    chunk_text(IF EndsWithTxt(f) THEN read_gcs_text(doc) ELSE read_gcs_pdf_text(doc),
               ChunkChars, Overlap)

\* lines 311-314: the chunks of file f as <<cid, text, ordinal>>
file_entries_one_based(prefix, f, chunks) ==
    [k \in 1..Len(chunks) |->
        <<stable_uuid(namespace_of(prefix), chunk_key(f, k)), chunks[k], k>>]
file_entries(prefix, f, chunks) ==
    [k \in 1..Len(chunks) |->
        <<stable_uuid(namespace_of(prefix), chunk_key(f, k - 1)), chunks[k], k - 1>>]

\* lines 324-329: the merge of the run's provenance into mapping
merge_none(m, prov, i2t) == m
merge_new_only(m, prov, i2t) ==
    [cid \in DOMAIN prov |->
        [source |-> prov[cid].src, chunk_index |-> prov[cid].i,
         text |-> IF cid \in DOMAIN i2t THEN i2t[cid] ELSE <<>>]]
merge_mapping(m, prov, i2t) ==
    [cid \in DOMAIN m \cup DOMAIN prov |->
        IF cid \in DOMAIN prov
        THEN [source |-> prov[cid].src, chunk_index |-> prov[cid].i,
              text |-> IF cid \in DOMAIN i2t THEN i2t[cid] ELSE <<>>]
        ELSE m[cid]]

NoBlob == [exists |-> FALSE, data |-> EmptyMap]
Blob(m) == [exists |-> TRUE, data |-> m]

NoStart == [gcs_mapping |-> NoBlob, local_mapping |-> NoBlob, index |-> EmptyMap]

NoPrev ==
    [valid |-> FALSE, prefix |-> RootR, pc |-> "idle", flts |-> {}, to_upsert |-> <<>>,
     provenance |-> EmptyMap, sent |-> <<>>, saved |-> NoBlob, index |-> EmptyMap,
     started |-> NoStart]


\* the pipeline before any run
PipelineIdle ==
    /\ gcs_mapping = NoBlob
    /\ local_mapping = NoBlob
    /\ index = EmptyMap
    /\ pc = [r \in Runs |-> "idle"]
    /\ gcs_prefix = [r \in Runs |-> RootR]
    /\ files = [r \in Runs |-> <<>>]
    /\ fpos = [r \in Runs |-> 1]
    /\ existing = [r \in Runs |-> EmptyMap]
    /\ mapping = [r \in Runs |-> EmptyMap]
    /\ to_upsert = [r \in Runs |-> <<>>]
    /\ provenance = [r \in Runs |-> EmptyMap]
    /\ dps = [r \in Runs |-> <<>>]
    /\ bpos = [r \in Runs |-> 0]
    /\ id2text = [r \in Runs |-> EmptyMap]
    /\ flts = [r \in Runs |-> {}]
    /\ stages = [r \in Runs |-> {}]
    /\ sent = [r \in Runs |-> <<>>]
    /\ started = [r \in Runs |-> NoStart]
    /\ prev = NoPrev
    /\ nruns = 0

\* chunk_text not called
ChunkOff ==
    /\ ck_text = <<>>
    /\ ck_chars = 1
    /\ ck_overlap = 0
    /\ ck = [pc |-> "off"]

\* no identifier asked for
KeyOff ==
    /\ kq = [pc |-> "off"]
    /\ kk = <<>>

\* retrieve_documents not called
RetrieveOff ==
    /\ rq = [pc |-> "off"]
    /\ rt = [pc |-> "off"]

\* read_gcs_pdf_text not called
PdfOff ==
    /\ pdf_doc = [pc |-> "off"]
    /\ pdf_out = [pc |-> "off"]

\* no agent, no plugin
GovOff ==
    /\ gctx = [pc |-> "off"]
    /\ gturn = [pc |-> "off"]
    /\ glog = [pc |-> "off"]

\* ------------------------------------------------------------------ SpecChunk
ExampleText == <<"a", "b", "c", "d", "e", "f", "g", "h", "i", "j">>

CkIdle == [pc |-> "call"]

InitChunk ==
    /\ \/ /\ ck_text \in SeqsUpTo(Letters \cup Whitespace, MaxTextLen)
          /\ ck_chars \in 1..MaxChunk
          /\ ck_overlap \in 0..MaxOverlap
       \/ /\ ck_text = ExampleText
          /\ ck_chars = 4
          /\ ck_overlap = 1
    /\ ck = CkIdle
    /\ bucket = [f \in Range(AllFiles) |-> Absent]
    /\ PipelineIdle
    /\ KeyOff
    /\ RetrieveOff
    /\ PdfOff
    /\ GovOff

\* lines 194-199
ChunkEnter ==
    /\ ck.pc = "call"
    /\ ck' = ChunkInit(ck_text)
    /\ UNCHANGED <<ck_text, ck_chars, ck_overlap, keyvars, rtvars, pdfvars, govvars, envvars, runvars, histvars>>

\* lines 200-205
ChunkLoop ==
    /\ ck.pc = "while"
    /\ ck' = ChunkIter(ck, ck_chars, ck_overlap)
    /\ UNCHANGED <<ck_text, ck_chars, ck_overlap, keyvars, rtvars, pdfvars, govvars, envvars, runvars, histvars>>

NextChunk == ChunkEnter \/ ChunkLoop

\* chunk_text is straight-line code: once called it runs to its return.
SpecChunk == InitChunk /\ [][NextChunk]_vars /\ WF_vars(NextChunk)

\* ------------------------------------------------------------------ build_and_upsert
Ended(r) == pc[r] \in {"done", "failed"}

\* What is kept of a run when the next one begins.
Summary(r) ==
    [valid |-> TRUE, prefix |-> gcs_prefix[r], pc |-> pc[r], flts |-> flts[r],
     to_upsert |-> to_upsert[r], provenance |-> provenance[r], sent |-> sent[r],
     saved |-> gcs_mapping, index |-> index, started |-> started[r]]

\* An exception leaves build_and_upsert: the run ends in failure.
Raise(r, fault) ==
    /\ pc' = [pc EXCEPT ![r] = "failed"]
    /\ flts' = [flts EXCEPT ![r] = @ \cup {fault}]

Enter(r, stage) == stages' = [stages EXCEPT ![r] = @ \cup {stage}]

\* build_and_upsert(gcs_prefix, index_resource_name, mapping_uri) is called.
StartRun(r, prefix) ==
    /\ pc[r] \in {"idle", "done", "failed"}
    /\ nruns < MaxRuns
    /\ nruns' = nruns + 1
    /\ prev' = IF pc[r] = "idle" THEN prev ELSE Summary(r)
    /\ pc' = [pc EXCEPT ![r] = "list"]
    /\ gcs_prefix' = [gcs_prefix EXCEPT ![r] = prefix]
    /\ files' = [files EXCEPT ![r] = <<>>]
    /\ fpos' = [fpos EXCEPT ![r] = 1]
    /\ existing' = [existing EXCEPT ![r] = EmptyMap]
    /\ mapping' = [mapping EXCEPT ![r] = EmptyMap]
    /\ to_upsert' = [to_upsert EXCEPT ![r] = <<>>]
    /\ provenance' = [provenance EXCEPT ![r] = EmptyMap]
    /\ dps' = [dps EXCEPT ![r] = <<>>]
    /\ bpos' = [bpos EXCEPT ![r] = 0]
    /\ id2text' = [id2text EXCEPT ![r] = EmptyMap]
    /\ flts' = [flts EXCEPT ![r] = {}]
    /\ stages' = [stages EXCEPT ![r] = {}]
    /\ sent' = [sent EXCEPT ![r] = <<>>]
    /\ started' = [started EXCEPT ![r] =
           [gcs_mapping |-> gcs_mapping, local_mapping |-> local_mapping, index |-> index]]
    /\ UNCHANGED <<ckvars, keyvars, rtvars, pdfvars, govvars, envvars>>

\* lines 280-285: list the files; none found returns
ListFiles(r) ==
    /\ pc[r] = "list"
    /\ Enter(r, "discover")
    /\ \/ /\ files' = [files EXCEPT ![r] = list_gcs_files(bucket, gcs_prefix[r])]
          /\ pc' = [pc EXCEPT ![r] = IF files'[r] = <<>> THEN "done" ELSE "load"]
          /\ UNCHANGED flts
       \/ /\ Raise(r, <<"list", "">>)
          /\ UNCHANGED files
    /\ UNCHANGED <<ckvars, keyvars, rtvars, pdfvars, govvars, envvars, gcs_prefix, fpos, existing, mapping, to_upsert,
                   provenance, dps, bpos, id2text, sent, started, prev, nruns>>

\* load_mapping_from_gcs (lines 258-268): the data of the object, {} when it does
\* not exist, {} when exists(), the download or the parse raises
load_mapping_from_gcs(blob, raises) ==
    IF raises THEN EmptyMap
    ELSE IF ~blob.exists THEN EmptyMap
    ELSE blob.data

\* lines 288-297
LoadMappingRaises(r) ==
    /\ pc[r] = "load"
    /\ \/ /\ existing' = [existing EXCEPT ![r] = load_mapping_from_gcs(gcs_mapping, FALSE)]
          /\ mapping' = [mapping EXCEPT ![r] = existing'[r]]
          /\ fpos' = [fpos EXCEPT ![r] = 1]
          /\ pc' = [pc EXCEPT ![r] = "for_files"]
          /\ UNCHANGED flts
       \/ /\ Raise(r, <<"load", "">>)
          /\ UNCHANGED <<existing, mapping, fpos>>
    /\ UNCHANGED <<ckvars, keyvars, rtvars, pdfvars, govvars, envvars, gcs_prefix, files, to_upsert, provenance,
                   dps, bpos, id2text, stages, sent, started, prev, nruns>>

LoadMapping(r) ==
    /\ pc[r] = "load"
    /\ \E raises \in BOOLEAN :
          /\ existing' = [existing EXCEPT ![r] = load_mapping_from_gcs(gcs_mapping, raises)]
          /\ flts' = [flts EXCEPT ![r] = IF raises THEN @ \cup {<<"load", "">>} ELSE @]
    /\ mapping' = [mapping EXCEPT ![r] = existing'[r]]
    /\ fpos' = [fpos EXCEPT ![r] = 1]
    /\ pc' = [pc EXCEPT ![r] = "for_files"]
    /\ UNCHANGED <<ckvars, keyvars, rtvars, pdfvars, govvars, envvars, gcs_prefix, files, to_upsert, provenance, dps, bpos,
                   id2text, stages, sent, started, prev, nruns>>

\* lines 299-314: one iteration of "for f in files"
ReadFile(r) ==
    /\ pc[r] = "for_files"
    /\ fpos[r] <= Len(files[r])
    /\ Enter(r, "extract")
    /\ LET f == files[r][fpos[r]]
           doc == bucket[f]
       IN \/ /\ doc.readable
             /\ \E entries \in {file_entries(gcs_prefix[r], f, extract_chunks(f, doc))} :
                   /\ to_upsert' = [to_upsert EXCEPT ![r] =
                          @ \o [k \in 1..Len(entries) |-> <<entries[k][1], entries[k][2]>>]]
                   /\ provenance' = [provenance EXCEPT ![r] =
                          PutAll(@, [k \in 1..Len(entries) |->
                                       <<entries[k][1], [src |-> f, i |-> entries[k][3]]>>])]
             /\ fpos' = [fpos EXCEPT ![r] = @ + 1]
             /\ flts' = [flts EXCEPT ![r] =
                    IF ~EndsWithTxt(f) /\ ~doc.parsable THEN @ \cup {<<"extract", f>>} ELSE @]
             /\ UNCHANGED pc
          \/ /\ ~doc.readable
             /\ Raise(r, <<"read", f>>)
             /\ UNCHANGED <<to_upsert, provenance, fpos>>
    /\ UNCHANGED <<ckvars, keyvars, rtvars, pdfvars, govvars, envvars, gcs_prefix, files, existing, mapping, dps, bpos,
                   id2text, sent, started, prev, nruns>>

\* lines 316-318: the loop is over; nothing to upsert returns
AfterFilesNoReturn(r) ==
    /\ pc[r] = "for_files"
    /\ fpos[r] > Len(files[r])
    /\ pc' = [pc EXCEPT ![r] = "upsert_docs"]
    /\ UNCHANGED <<ckvars, keyvars, rtvars, pdfvars, govvars, envvars, gcs_prefix, files, fpos, existing, mapping,
                   to_upsert, provenance, dps, bpos, id2text, flts, stages, sent, started,
                   prev, nruns>>

AfterFiles(r) ==
    /\ pc[r] = "for_files"
    /\ fpos[r] > Len(files[r])
    /\ pc' = [pc EXCEPT ![r] = IF to_upsert[r] = <<>> THEN "done" ELSE "upsert_docs"]
    /\ UNCHANGED <<ckvars, keyvars, rtvars, pdfvars, govvars, envvars, gcs_prefix, files, fpos, existing, mapping, to_upsert,
                   provenance, dps, bpos, id2text, flts, stages, sent, started, prev, nruns>>

\* upsert_docs lines 233-245: zip(ids, vecs, texts) of the chunks and nvec vectors
datapoints(chunks, nvec) ==
    [k \in 1..Min(nvec, Len(chunks)) |->
        [datapoint_id |-> chunks[k][1], content |-> chunks[k][2]]]

\* upsert_docs lines 229-245: embed all the texts in one call, build the datapoints
Embed(r) ==
    /\ pc[r] = "upsert_docs"
    /\ IF to_upsert[r] = <<>>
       THEN \* lines 229-231: no chunks, upsert_docs returns {} before any call
            /\ dps' = [dps EXCEPT ![r] = <<>>]
            /\ bpos' = [bpos EXCEPT ![r] = 0]
            /\ pc' = [pc EXCEPT ![r] = "upsert_batches"]
            /\ UNCHANGED <<flts, stages>>
       ELSE /\ Enter(r, "embed")
            /\ \/ \E nvec \in 0..Len(to_upsert[r]) :
                     /\ dps' = [dps EXCEPT ![r] = datapoints(to_upsert[r], nvec)]
                     /\ flts' = [flts EXCEPT ![r] =
                            IF nvec < Len(to_upsert[r]) THEN @ \cup {<<"embed_short", "">>}
                            ELSE @]
                     /\ bpos' = [bpos EXCEPT ![r] = 0]
                     /\ pc' = [pc EXCEPT ![r] = "upsert_batches"]
               \/ /\ Raise(r, <<"embed", "">>)
                  /\ UNCHANGED <<dps, bpos>>
    /\ UNCHANGED <<ckvars, keyvars, rtvars, pdfvars, govvars, envvars, gcs_prefix, files, fpos, existing, mapping, to_upsert,
                   provenance, id2text, sent, started, prev, nruns>>

\* the index after upsert_datapoints(batch)
upserted(idx, batch) ==
    PutAll(idx, [k \in 1..Len(batch) |-> <<batch[k].datapoint_id, batch[k].content>>])

\* upsert_docs lines 251-252: one batch
UpsertBatchStride(r) ==
    /\ pc[r] = "upsert_batches"
    /\ bpos[r] < Len(dps[r])
    /\ Enter(r, "upsert")
    /\ index' = upserted(index, Slice(dps[r], bpos[r], bpos[r] + BATCH))
    /\ sent' = [sent EXCEPT ![r] = @ \o Slice(dps[r], bpos[r], bpos[r] + BATCH)]
    /\ bpos' = [bpos EXCEPT ![r] = @ + BATCH + 1]
    /\ UNCHANGED <<pc, flts>>
    /\ UNCHANGED <<ckvars, keyvars, rtvars, pdfvars, govvars, bucket, gcs_mapping, local_mapping, gcs_prefix,
                   files, fpos, existing, mapping, to_upsert, provenance, dps, id2text,
                   started, prev, nruns>>

UpsertBatchSwallow(r) ==
    /\ pc[r] = "upsert_batches"
    /\ bpos[r] < Len(dps[r])
    /\ Enter(r, "upsert")
    /\ \/ /\ index' = upserted(index, Slice(dps[r], bpos[r], bpos[r] + BATCH))
          /\ sent' = [sent EXCEPT ![r] = @ \o Slice(dps[r], bpos[r], bpos[r] + BATCH)]
          /\ UNCHANGED flts
       \/ /\ flts' = [flts EXCEPT ![r] = @ \cup {<<"upsert", "">>}]
          /\ UNCHANGED <<index, sent>>
    /\ bpos' = [bpos EXCEPT ![r] = @ + BATCH]
    /\ UNCHANGED <<pc, ckvars, keyvars, rtvars, pdfvars, govvars, bucket, gcs_mapping,
                   local_mapping, gcs_prefix, files, fpos, existing, mapping, to_upsert,
                   provenance, dps, id2text, started, prev, nruns>>

UpsertBatch(r) ==
    /\ pc[r] = "upsert_batches"
    /\ bpos[r] < Len(dps[r])
    /\ Enter(r, "upsert")
    /\ LET batch == Slice(dps[r], bpos[r], bpos[r] + BATCH)
       IN \/ /\ index' = upserted(index, batch)
             /\ sent' = [sent EXCEPT ![r] = @ \o batch]
             /\ bpos' = [bpos EXCEPT ![r] = @ + BATCH]
             /\ UNCHANGED <<pc, flts>>
          \/ /\ Raise(r, <<"upsert", "">>)
             \* the failed request may or may not have been applied
             /\ \E applied \in BOOLEAN :
                   /\ index' = IF applied THEN upserted(index, batch) ELSE index
                   /\ sent' = [sent EXCEPT ![r] = IF applied THEN @ \o batch ELSE @]
             /\ UNCHANGED bpos
    /\ UNCHANGED <<ckvars, keyvars, rtvars, pdfvars, govvars, bucket, gcs_mapping, local_mapping, gcs_prefix, files, fpos,
                   existing, mapping, to_upsert, provenance, dps, id2text, started, prev,
                   nruns>>

\* upsert_docs line 255 and build_and_upsert lines 321-329: id2text, then the merge
MergeMappingEarly(r) ==
    /\ pc[r] = "upsert_batches"
    /\ bpos[r] >= Min(BATCH, Len(dps[r]))
    /\ id2text' = [id2text EXCEPT ![r] = PutAll(EmptyMap, to_upsert[r])]
    /\ mapping' = [mapping EXCEPT ![r] = merge_mapping(@, provenance[r], id2text'[r])]
    /\ pc' = [pc EXCEPT ![r] = "write_local"]
    /\ UNCHANGED <<ckvars, keyvars, rtvars, pdfvars, govvars, envvars, gcs_prefix, files, fpos, existing,
                   to_upsert, provenance, dps, bpos, flts, stages, sent, started, prev, nruns>>

MergeMapping(r) ==
    /\ pc[r] = "upsert_batches"
    /\ bpos[r] >= Len(dps[r])
    /\ id2text' = [id2text EXCEPT ![r] = PutAll(EmptyMap, to_upsert[r])]
    /\ mapping' = [mapping EXCEPT ![r] = merge_mapping(@, provenance[r], id2text'[r])]
    /\ pc' = [pc EXCEPT ![r] = "write_local"]
    /\ UNCHANGED <<ckvars, keyvars, rtvars, pdfvars, govvars, envvars, gcs_prefix, files, fpos, existing, to_upsert,
                   provenance, dps, bpos, flts, stages, sent, started, prev, nruns>>

\* lines 332-334: the local copy; a failed write leaves the file as it was or truncated
WriteLocal(r) ==
    /\ pc[r] = "write_local"
    /\ Enter(r, "persist")
    /\ \/ /\ local_mapping' = Blob(mapping[r])
          /\ pc' = [pc EXCEPT ![r] = "save"]
          /\ UNCHANGED flts
       \/ /\ Raise(r, <<"local", "">>)
          /\ \E truncated \in BOOLEAN :
                local_mapping' = IF truncated THEN Blob(EmptyMap) ELSE local_mapping
    /\ UNCHANGED <<ckvars, keyvars, rtvars, pdfvars, govvars, bucket, gcs_mapping, index, gcs_prefix, files, fpos, existing,
                   mapping, to_upsert, provenance, dps, bpos, id2text, sent, started, prev,
                   nruns>>

\* save_mapping_to_gcs (lines 270-274) and the return (lines 337-339)
SaveMappingMerge(r) ==
    /\ pc[r] = "save"
    /\ \/ /\ gcs_mapping' =
                 Blob([cid \in DOMAIN gcs_mapping.data \cup DOMAIN mapping[r] |->
                          IF cid \in DOMAIN mapping[r] THEN mapping[r][cid]
                          ELSE gcs_mapping.data[cid]])
          /\ pc' = [pc EXCEPT ![r] = "done"]
          /\ UNCHANGED flts
       \/ /\ Raise(r, <<"save", "">>)
          /\ UNCHANGED gcs_mapping
    /\ UNCHANGED <<ckvars, keyvars, rtvars, pdfvars, govvars, bucket, local_mapping, index, gcs_prefix, files,
                   fpos, existing, mapping, to_upsert, provenance, dps, bpos, id2text,
                   stages, sent, started, prev, nruns>>

SaveMappingSwallow(r) ==
    /\ pc[r] = "save"
    /\ \/ /\ gcs_mapping' = Blob(mapping[r])
          /\ UNCHANGED flts
       \/ /\ flts' = [flts EXCEPT ![r] = @ \cup {<<"save", "">>}]
          /\ UNCHANGED gcs_mapping
    /\ pc' = [pc EXCEPT ![r] = "done"]
    /\ UNCHANGED <<ckvars, keyvars, rtvars, pdfvars, govvars, bucket, local_mapping, index, gcs_prefix, files,
                   fpos, existing, mapping, to_upsert, provenance, dps, bpos, id2text,
                   stages, sent, started, prev, nruns>>

SaveMapping(r) ==
    /\ pc[r] = "save"
    /\ \/ /\ gcs_mapping' = Blob(mapping[r])
          /\ pc' = [pc EXCEPT ![r] = "done"]
          /\ UNCHANGED flts
       \/ /\ Raise(r, <<"save", "">>)
          /\ UNCHANGED gcs_mapping
    /\ UNCHANGED <<ckvars, keyvars, rtvars, pdfvars, govvars, bucket, local_mapping, index, gcs_prefix, files, fpos, existing,
                   mapping, to_upsert, provenance, dps, bpos, id2text, stages, sent,
                   started, prev, nruns>>

\* a step of a run that has begun
RunStep(r) ==
    \/ ListFiles(r)
    \/ LoadMapping(r)
    \/ ReadFile(r)
    \/ AfterFiles(r)
    \/ Embed(r)
    \/ UpsertBatch(r)
    \/ MergeMapping(r)
    \/ WriteLocal(r)
    \/ SaveMapping(r)

Init ==
    /\ ChunkOff
    /\ KeyOff
    /\ RetrieveOff
    /\ PdfOff
    /\ GovOff
    /\ bucket \in Buckets
    /\ PipelineIdle

Next ==
    \E r \in SeqRuns :
        \/ \E prefix \in Roots : StartRun(r, prefix)
        \/ RunStep(r)

Spec == Init /\ [][Next]_vars

\* The same runs, MaxLiveRuns of them. build_and_upsert is synchronous: a run that
\* has begun keeps taking steps, which is the fairness stated.
NextLive ==
    \E r \in SeqRuns :
        \/ \E prefix \in Roots : nruns < MaxLiveRuns /\ StartRun(r, prefix)
        \/ RunStep(r)

SpecLive == Init /\ [][NextLive]_vars /\ \A r \in SeqRuns : WF_vars(RunStep(r))

\* Two calls of build_and_upsert at the same time, each once, with the same
\* mapping_uri: nothing in the code makes one wait for the other, so their steps
\* interleave in any order.
NextConc ==
    \E r \in Runs :
        \/ \E prefix \in Roots : pc[r] = "idle" /\ StartRun(r, prefix)
        \/ RunStep(r)

SpecConc == Init /\ [][NextConc]_vars

\* ------------------------------------------------------------------ SpecPdf
\* read_gcs_pdf_text called on one PDF object. A page gives a text, no text
\* (extract_text returns None or ""), or its extract_text raises.
PageChoices == {GoodPage(<<"a">>), GoodPage(<<"b", "c">>), GoodPage(<<>>), BadPage}

PdfDocs ==
    {Unreadable, CorruptPdf} \cup {PdfDoc(pages) : pages \in SeqsUpTo(PageChoices, MaxPages)}

InitPdf ==
    /\ pdf_doc \in {[pc |-> "call", doc |-> d] : d \in PdfDocs}
    /\ pdf_out = [pc |-> "off"]
    /\ ChunkOff
    /\ KeyOff
    /\ RetrieveOff
    /\ GovOff
    /\ bucket = [f \in Range(AllFiles) |-> Absent]
    /\ PipelineIdle

\* lines 168-185: the download is outside the try and its exception leaves the
\* function; everything after it returns a text
PdfRead ==
    /\ pdf_doc.pc = "call"
    /\ pdf_out.pc = "off"
    /\ pdf_out' = IF pdf_doc.doc.readable
                  THEN [pc |-> "returned", text |-> read_gcs_pdf_text(pdf_doc.doc)]
                  ELSE [pc |-> "raised", text |-> <<>>]
    /\ UNCHANGED <<pdf_doc, ckvars, keyvars, rtvars, govvars, envvars, runvars, histvars>>

NextPdf == PdfRead

SpecPdf == InitPdf /\ [][NextPdf]_vars

\* ------------------------------------------------------------------ SpecGov
\* EnterpriseGovernancePlugin (cymbal_agent/utils/governance_plugin.py) over the
\* turns of one session. context.state is the session state: it is kept from one
\* turn to the next. A request text is a sequence of words; responses are strings.
\* The tool hooks write only eval_tags.tool_retry and tool_invocations, which
\* nothing below reads; they are left out.
Words == {"hi", "John Doe"}

UserTexts == SeqsUpTo(Words, MaxWords)

\* original.replace("John Doe", "[PERSON_NAME]")
redact(text) == [k \in 1..Len(text) |-> IF text[k] = "John Doe" THEN "[PERSON_NAME]" ELSE text[k]]

BlockedText == "Sorry, I can't help with that."

GuardrailErrorText == "Issue processing your request."

\* what the guardrail model answers: a decision, or generate_content/json.loads raises
Decisions == {"safe", "unsafe", "error"}

\* the text of the first part of the model response, "" when it has none
ModelTexts == {"", "answer"}

\* the event given to after_agent_callback: none, or one that is or is not final,
\* with the text of its first text part ("" when it has none)
Events ==
    {[given |-> FALSE, final |-> FALSE, text |-> ""]}
    \cup {[given |-> TRUE, final |-> f, text |-> t] : f \in BOOLEAN, t \in {"", "final"}}

\* the session state before the first turn: the keys are absent, which the reads
\* of after_agent_callback take as these values
EmptyState ==
    [eval_tags |-> [guardrail_blocked |-> FALSE, pii_redacted |-> FALSE, tool_retry |-> 0],
     sanitized_user_prompt |-> <<>>,
     intercepted_final_response |-> "",
     last_model_text |-> ""]

\* what has happened in the turn so far (history, not plugin state): the text of
\* the intercept when the guardrail blocked, the last text the model gave
NoTurn == [blocked |-> "", model_text |-> ""]

NoRow ==
    [turn |-> 0, response |-> "", request |-> <<>>, eval_tags |-> EmptyState.eval_tags,
     event |-> [given |-> FALSE, final |-> FALSE, text |-> ""], seen |-> NoTurn]

NoCall ==
    [valid |-> FALSE, blocked |-> FALSE, text_before |-> <<>>, text_after |-> <<>>,
     pii_set |-> FALSE]

InitGov ==
    /\ gctx = EmptyState
    /\ gturn = [pc |-> "idle", turn |-> 0, calls |-> 0, text |-> <<>>]
    /\ glog = [nrows |-> 0, row |-> NoRow, cur |-> NoTurn, bm |-> NoCall]
    /\ ChunkOff
    /\ KeyOff
    /\ RetrieveOff
    /\ PdfOff
    /\ bucket = [f \in Range(AllFiles) |-> Absent]
    /\ PipelineIdle

\* before_agent_callback, lines 108-123: a turn begins with the text of the user
BeforeAgent ==
    /\ gturn.pc = "idle"
    /\ gturn.turn < MaxTurns
    /\ \E text \in UserTexts :
          gturn' = [pc |-> "model", turn |-> gturn.turn + 1, calls |-> 0, text |-> text]
    /\ gctx' = [gctx EXCEPT !.eval_tags = [guardrail_blocked |-> FALSE,
                                          pii_redacted |-> FALSE, tool_retry |-> 0],
                            !.sanitized_user_prompt = <<>>]
    /\ glog' = [glog EXCEPT !.cur = NoTurn]
    /\ UNCHANGED <<ckvars, keyvars, rtvars, pdfvars, envvars, runvars, histvars>>

\* _redact_pii_from_request, lines 184-210: the state and the request text after it
redact_pii_from_request(state, text) ==
    IF text = <<>> THEN [state |-> state, text |-> text, pii_set |-> FALSE]
    ELSE [state |-> [state EXCEPT !.sanitized_user_prompt = redact(text),
                                  !.eval_tags.pii_redacted =
                                      IF redact(text) # text THEN TRUE ELSE @],
          text |-> redact(text),
          pii_set |-> redact(text) # text]

\* _check_for_policy_violations, lines 140-182: the state after it and whether it
\* returns a blocking response
check_for_policy_violations(state, text, decision) ==
    IF text = <<>> THEN [state |-> state, block |-> ""]
    ELSE IF decision = "unsafe"
    THEN [state |-> [state EXCEPT !.eval_tags.guardrail_blocked = TRUE,
                                  !.sanitized_user_prompt = <<"[BLOCKED_BY_GUARDRAIL]">>,
                                  !.intercepted_final_response = BlockedText],
          block |-> BlockedText]
    ELSE IF decision = "error"
    THEN [state |-> [state EXCEPT !.sanitized_user_prompt = <<"[GUARDRAIL_ERROR]">>,
                                  !.intercepted_final_response = GuardrailErrorText],
          block |-> GuardrailErrorText]
    ELSE [state |-> state, block |-> ""]

\* before_model_callback, lines 214-233: the redaction, then the guardrail check
\* on the request it left; a blocking response ends the turn without a model call
BeforeModel ==
    /\ gturn.pc = "model"
    /\ gturn.calls < MaxCalls
    /\ \E decision \in Decisions :
          LET red == redact_pii_from_request(gctx, gturn.text)
              chk == check_for_policy_violations(red.state, red.text, decision)
          IN /\ gctx' = chk.state
             /\ gturn' = [gturn EXCEPT !.text = red.text, !.calls = @ + 1,
                                       !.pc = IF chk.block # "" THEN "end" ELSE "called"]
             /\ glog' = [glog EXCEPT
                            !.cur.blocked = IF chk.block # "" THEN chk.block ELSE @,
                            !.bm = [valid |-> TRUE, blocked |-> chk.block # "",
                                    text_before |-> gturn.text, text_after |-> red.text,
                                    pii_set |-> red.pii_set]]
    /\ UNCHANGED <<ckvars, keyvars, rtvars, pdfvars, envvars, runvars, histvars>>

\* after_model_callback, lines 235-260: the text of the response is cached when
\* it has one; the model then is called again (after a tool) or the turn ends
AfterModel ==
    /\ gturn.pc = "called"
    /\ \E text_out \in ModelTexts :
          /\ gctx' = [gctx EXCEPT !.last_model_text = IF text_out # "" THEN text_out ELSE @]
          /\ glog' = [glog EXCEPT !.cur.model_text = IF text_out # "" THEN text_out ELSE @]
    /\ \E again \in BOOLEAN : gturn' = [gturn EXCEPT !.pc = IF again THEN "model" ELSE "end"]
    /\ UNCHANGED <<ckvars, keyvars, rtvars, pdfvars, envvars, runvars, histvars>>

\* after_agent_callback lines 329-352: the response text of the final row
final_text(state, event) ==
    IF event.given /\ event.final /\ event.text # "" THEN event.text
    ELSE IF state.intercepted_final_response # "" THEN state.intercepted_final_response
    ELSE state.last_model_text

\* after_agent_callback, lines 317-397: the one final row of the turn
AfterAgent ==
    /\ gturn.pc = "end"
    /\ \E event \in Events :
          glog' = [glog EXCEPT
                      !.nrows = @ + 1,
                      !.row = [turn |-> gturn.turn, response |-> final_text(gctx, event),
                               request |-> gctx.sanitized_user_prompt,
                               eval_tags |-> gctx.eval_tags, event |-> event,
                               seen |-> glog.cur]]
    /\ gturn' = [gturn EXCEPT !.pc = "idle"]
    /\ UNCHANGED <<gctx, ckvars, keyvars, rtvars, pdfvars, envvars, runvars, histvars>>

NextGov == BeforeAgent \/ BeforeModel \/ AfterModel \/ AfterAgent

SpecGov == InitGov /\ [][NextGov]_vars

\* ------------------------------------------------------------------ SpecKey
\* The identifier of a chunk (lines 311-312) computed for two (source, ordinal) pairs
\* of one gcs_prefix. Source names are object names: any string, the separator
\* "::chunk::" and digits included.
KeyTokens == <<"a", "1", "::chunk::">>

RECURSIVE Concat(_)
Concat(ws) == IF ws = <<>> THEN "" ELSE Head(ws) \o Concat(Tail(ws))

SourceNames == {Concat(ws) : ws \in SeqsUpTo(Range(KeyTokens), MaxTokens)}

KeyInputs ==
    [pc : {"call"}, prefix : Roots,
     f1 : SourceNames, i1 : 0..MaxOrdinal, f2 : SourceNames, i2 : 0..MaxOrdinal]

InitKey ==
    /\ kq \in KeyInputs
    /\ kk = <<>>
    /\ ChunkOff
    /\ RetrieveOff
    /\ PdfOff
    /\ GovOff
    /\ bucket = [f \in Range(AllFiles) |-> Absent]
    /\ PipelineIdle

\* lines 311-312, for each of the two pairs
KeyApply ==
    /\ kq.pc = "call"
    /\ kk = <<>>
    /\ kk' = <<stable_uuid(namespace_of(kq.prefix), chunk_key(kq.f1, kq.i1)),
               stable_uuid(namespace_of(kq.prefix), chunk_key(kq.f2, kq.i2))>>
    /\ UNCHANGED <<kq, ckvars, rtvars, pdfvars, govvars, envvars, runvars, histvars>>

NextKey == KeyApply

SpecKey == InitKey /\ [][NextKey]_vars

\* ------------------------------------------------------------------ retrieve_documents
\* A restriction of a datapoint, and a datapoint as find_neighbors returns it with
\* return_full_datapoint: the restricts and the crowding attribute ("" when the
\* crowding tag is not set).
Restriction(ns, al) == [namespace |-> ns, allow_list |-> al]

Datapoint(rs, ca) == [restricts |-> rs, crowding_attribute |-> ca]

RestrictLists ==
    {<<>>,
     <<Restriction("content", <<"x">>)>>,
     <<Restriction("content", <<"y", "x">>)>>,
     <<Restriction("content", <<"0">>)>>,
     <<Restriction("other", <<"x">>)>>,
     <<Restriction("content", <<>>), Restriction("content", <<"y">>)>>,
     <<Restriction("other", <<"x">>), Restriction("content", <<"y">>)>>,
     <<Restriction("content", <<"">>), Restriction("content", <<"y">>)>>}

CrowdingAttributes == {"", "0", "c"}

Datapoints == {Datapoint(rs, ca) : rs \in RestrictLists, ca \in CrowdingAttributes}

\* a FindNeighborsResponse: one entry of nearest_neighbors per query, or none
Response(neighbors) == [nearest_neighbors |-> <<[neighbors |-> neighbors]>>]

NoNeighbors == [nearest_neighbors |-> <<>>]

Responses(k) ==
    {NoNeighbors} \cup
    {Response([j \in 1..Len(dpl) |-> [datapoint |-> dpl[j]]]) :
        dpl \in SeqsUpTo(Datapoints, Min(k, MaxMatches))}

\* Python's None and a string value; truthiness of the local content
None == [some |-> FALSE, val |-> ""]
Some(v) == [some |-> TRUE, val |-> v]
Truthy(content) == content.some /\ content.val # ""

\* lines 85-88: the first restrict with namespace "content" and a non-empty
\* allow_list gives its first value and ends the loop
RECURSIVE restrict_loop(_)
restrict_loop(restricts) ==
    IF restricts = <<>> THEN None
    ELSE IF Head(restricts).namespace = "content" /\ Head(restricts).allow_list # <<>>
         THEN Some(Head(restricts).allow_list[1])
         ELSE restrict_loop(Tail(restricts))

\* lines 81-94: the content of one match
match_content_secondary_first(dp) ==
    IF dp.crowding_attribute # "" /\ dp.crowding_attribute # "0"
    THEN Some(dp.crowding_attribute)
    ELSE restrict_loop(dp.restricts)
match_content(dp) ==
    LET content == IF dp.restricts # <<>> THEN restrict_loop(dp.restricts) ELSE None
        crowding_attr == dp.crowding_attribute
    IN IF ~Truthy(content) /\ crowding_attr # ""
       THEN IF crowding_attr # "" /\ crowding_attr # "0" THEN Some(crowding_attr)
            ELSE content
       ELSE content

\* lines 80-97: the loop over the matches
RECURSIVE extract_loop_prepend(_, _)
extract_loop_prepend(neighbors, content_chunks) ==
    IF neighbors = <<>> THEN content_chunks
    ELSE LET content == match_content(Head(neighbors).datapoint)
         IN extract_loop_prepend(Tail(neighbors),
                IF Truthy(content) THEN <<content.val>> \o content_chunks
                ELSE content_chunks)
RECURSIVE extract_loop(_, _)
extract_loop(neighbors, content_chunks) ==
    IF neighbors = <<>> THEN content_chunks
    ELSE LET content == match_content(Head(neighbors).datapoint)
         IN extract_loop(Tail(neighbors),
                IF Truthy(content) THEN Append(content_chunks, content.val)
                ELSE content_chunks)

\* _extract_content_from_response, lines 74-99
extract_content_from_response(response) ==
    IF response.nearest_neighbors = <<>> \/ response.nearest_neighbors[1].neighbors = <<>>
    THEN <<>>
    ELSE extract_loop(response.nearest_neighbors[1].neighbors, <<>>)

\* Python's sep.join(chunks) on strings
RECURSIVE join_chunks(_, _)
join_chunks(sep, chunks) ==
    IF chunks = <<>> THEN ""
    ELSE IF Len(chunks) = 1 THEN chunks[1]
    ELSE chunks[1] \o sep \o join_chunks(sep, Tail(chunks))

NoResultsMessage == "No relevant documents found for the query."

ErrorMessage(e) == "Error retrieving documents: " \o e

\* a call made to the embedding model or to the index
EmbedContentCall(contents) == [op |-> "embed_content", contents |-> contents, k |-> 0]
FindNeighborsCall(k) == [op |-> "find_neighbors", contents |-> <<>>, k |-> k]

\* lines 129-132
retrieve_return_nocheck(chunks) == join_chunks("\n\n", chunks)
retrieve_return(chunks) ==
    IF chunks = <<>> THEN NoResultsMessage ELSE join_chunks("\n\n", chunks)

\* lines 124-132, the body of the try: exc is the message of the exception that
\* left it, "" when it returned value
retrieve_try(q) ==
    LET embed == EmbedContentCall(<<q.query>>)
        find == FindNeighborsCall(q.num_results)
    IN IF q.embed = "raise"
       THEN [calls |-> <<embed>>, chunks |-> <<>>, exc |-> "embed_content failed",
             value |-> ""]
       ELSE IF q.embed = "empty"
       THEN [calls |-> <<embed>>, chunks |-> <<>>, exc |-> "list index out of range",
             value |-> ""]
       ELSE IF q.search.kind = "raise"
       THEN [calls |-> <<embed, find>>, chunks |-> <<>>, exc |-> "find_neighbors failed",
             value |-> ""]
       ELSE IF q.search.kind = "malformed"
       THEN [calls |-> <<embed, find>>, chunks |-> <<>>,
             exc |-> "object has no attribute 'nearest_neighbors'", value |-> ""]
       ELSE LET chunks == extract_content_from_response(q.search.response)
            IN [calls |-> <<embed, find>>, chunks |-> chunks, exc |-> "",
                value |-> retrieve_return(chunks)]

\* retrieve_documents, lines 102-134: the outcome of the call
retrieve_documents_uncaught(q) ==
    LET t == retrieve_try(q)
    IN [pc |-> IF t.exc = "" THEN "returned" ELSE "raised", calls |-> t.calls,
        chunks |-> t.chunks, result |-> t.value]
retrieve_documents(q) ==
    LET t == retrieve_try(q)
    IN [pc |-> "returned", calls |-> t.calls, chunks |-> t.chunks,
        result |-> IF t.exc = "" THEN t.value ELSE ErrorMessage(t.exc)]

\* what the embedding model answers: vectors, no vector, or an exception
EmbedOutcomes == {"ok", "empty", "raise"}

\* what the index answers: a response, an object that is not one, or an exception
SearchOutcomes(k) ==
    {[kind |-> "raise", response |-> NoNeighbors],
     [kind |-> "malformed", response |-> NoNeighbors]}
    \cup {[kind |-> "ok", response |-> resp] : resp \in Responses(k)}

RetrieveInputs ==
    UNION {[pc : {"call"}, query : {"q"}, num_results : {k}, embed : EmbedOutcomes,
            search : SearchOutcomes(k)] : k \in {1, 5}}

InitRetrieve ==
    /\ rq \in RetrieveInputs
    /\ rt = [pc |-> "off"]
    /\ ChunkOff
    /\ KeyOff
    /\ PdfOff
    /\ GovOff
    /\ bucket = [f \in Range(AllFiles) |-> Absent]
    /\ PipelineIdle

\* retrieve_documents(query, num_results) is called and runs to its end
RetrieveCall ==
    /\ rq.pc = "call"
    /\ rt.pc = "off"
    /\ rt' = retrieve_documents(rq)
    /\ UNCHANGED <<rq, ckvars, keyvars, pdfvars, govvars, envvars, runvars, histvars>>

NextRetrieve == RetrieveCall

SpecRetrieve == InitRetrieve /\ [][NextRetrieve]_vars

\* ------------------------------------------------------------------ chunk_text: claims
\* C6: chunk_text terminates for every text, chunk size and overlap, overlap >=
\* chunk size included: every iteration that continues the loop advances i by at
\* least 1, the number of windows never exceeds
\* ceil(len(text) / max(1, chunk_chars - overlap)), and the return is reached.
C6_WindowBound ==
    ck.pc \in {"while", "return"} =>
        Len(ck.chunks) <= CeilDiv(ck.n, Max(1, ck_chars - ck_overlap))

C6_Advance == (ck.pc = "while" /\ ck'.pc = "while") => ck'.i >= ck.i + 1

\* C6 (the three parts together): the window bound always holds, every continuing
\* iteration advances i by at least 1, and chunk_text reaches its return.
C6_ChunkTerminates ==
    /\ []C6_WindowBound
    /\ [][C6_Advance]_vars
    /\ <>(ck.pc = "return")

C6_Witness ==
    /\ ck.pc = "return"
    /\ ck_overlap >= ck_chars
    /\ Len(ck.chunks) >= 3

\* The reversal rule: the first window, then every later window without its first
\* overlap characters.
RECURSIVE StripJoin(_, _)
StripJoin(chunks, overlap) ==
    IF chunks = <<>> THEN <<>>
    ELSE SubSeq(Head(chunks), overlap + 1, Len(Head(chunks)))
         \o StripJoin(Tail(chunks), overlap)

Reconstruct(chunks, overlap) ==
    IF chunks = <<>> THEN <<>> ELSE Head(chunks) \o StripJoin(Tail(chunks), overlap)

\* C7 as stated: with overlap < chunk size the reversal rule gives back the
\* argument text T itself.
C7_RoundTripRaw ==
    (ck.pc = "return" /\ ck_overlap < ck_chars) =>
        Reconstruct(ck.chunks, ck_overlap) = ck_text

\* C7 amended: with overlap < chunk size the reversal rule gives back the
\* whitespace-normalized text clean_text(T).
C7_RoundTripClean ==
    (ck.pc = "return" /\ ck_overlap < ck_chars) =>
        Reconstruct(ck.chunks, ck_overlap) = clean_text(ck_text)

C7_Witness ==
    /\ ck.pc = "return"
    /\ ck_overlap >= 1
    /\ ck_overlap < ck_chars
    /\ Len(ck.chunks) >= 2
    /\ clean_text(ck_text) # ck_text
    /\ Reconstruct(ck.chunks, ck_overlap) = clean_text(ck_text)

\* w occurs in text at offset s
OccursAt(w, text, s) == SubSeq(text, s + 1, s + Len(w)) = w

\* C8: every returned window has exactly chunk_chars characters, except the last,
\* which is non-empty and has at most chunk_chars characters; every window is a
\* contiguous substring of the normalized text and the last one is a suffix of it.
C8_WindowShape ==
    ck.pc = "return" =>
        LET t == clean_text(ck_text)
            m == Len(ck.chunks)
        IN /\ \A k \in 1..(m - 1) : Len(ck.chunks[k]) = ck_chars
           /\ m > 0 => /\ Len(ck.chunks[m]) >= 1
                        /\ Len(ck.chunks[m]) <= ck_chars
                        /\ OccursAt(ck.chunks[m], t, Len(t) - Len(ck.chunks[m]))
           /\ \A k \in 1..m :
                  \E s \in 0..(Len(t) - Len(ck.chunks[k])) : OccursAt(ck.chunks[k], t, s)

C8_Witness ==
    /\ ck.pc = "return"
    /\ Len(ck.chunks) >= 2
    /\ Len(ck.chunks[Len(ck.chunks)]) < ck_chars

ExampleChunks ==
    << <<"a", "b", "c", "d">>, <<"d", "e", "f", "g">>, <<"g", "h", "i", "j">> >>

\* C9: with 0 <= overlap < chunk_chars successive window starts differ by exactly
\* chunk_chars - overlap, and "abcdefghij" with (4, 1) gives abcd, defg, ghij;
\* with overlap >= chunk_chars they differ by at least 1.
C9_StartOffsets ==
    /\ ck.pc \in {"while", "return"} =>
          \A k \in 1..(Len(ck.starts) - 1) :
              IF ck_overlap < ck_chars
              THEN ck.starts[k + 1] - ck.starts[k] = ck_chars - ck_overlap
              ELSE ck.starts[k + 1] - ck.starts[k] >= 1
    /\ (ck.pc = "return" /\ ck_text = ExampleText /\ ck_chars = 4 /\ ck_overlap = 1) =>
          ck.chunks = ExampleChunks

C9_Witness ==
    /\ ck.pc = "return"
    /\ ck_text = ExampleText
    /\ ck.starts = <<0, 3, 6>>

\* ------------------------------------------------------------------ build_and_upsert: claims
Keys(blob) == DOMAIN blob.data

\* the identifiers generated in run r
RunIds(r) == DOMAIN provenance[r]

\* the faults that are a property of a document, not of a call
DocFaults == {"extract", "read"}

\* The save of run r keeps every entry persisted before it, unchanged unless its
\* identifier was regenerated in the run, whatever load_mapping_from_gcs met.
C1_SaveStep(r) ==
    (pc[r] = "save" /\ pc'[r] = "done") =>
        \A cid \in Keys(gcs_mapping) :
            /\ cid \in Keys(gcs_mapping')
            /\ cid \notin RunIds(r) => gcs_mapping'.data[cid] = gcs_mapping.data[cid]

\* C1: every step of every run keeps the persisted entries as stated above, so
\* the persisted key set never shrinks.
C1_AppendOnly == [][\A r \in SeqRuns : C1_SaveStep(r)]_vars

\* a run in which no call failed (a PDF the reader rejects is not a failed call)
CleanRun(f) == \A x \in f : x[1] = "extract"

\* C2: a run that follows a run of the same root, both without failures, generates
\* the same chunk list, upserts the same (identifier, content) pairs and leaves the
\* persisted mapping as the first run left it.
C2_IdempotentRerun ==
    \A r \in SeqRuns :
        (/\ pc[r] = "done" /\ CleanRun(flts[r])
         /\ prev.valid /\ prev.pc = "done" /\ CleanRun(prev.flts)
         /\ prev.prefix = gcs_prefix[r])
        => /\ to_upsert[r] = prev.to_upsert
           /\ sent[r] = prev.sent
           /\ gcs_mapping = prev.saved

C2_Witness ==
    \E r \in SeqRuns :
        /\ pc[r] = "done" /\ CleanRun(flts[r])
        /\ prev.valid /\ prev.pc = "done" /\ CleanRun(prev.flts)
        /\ prev.prefix = gcs_prefix[r]
        /\ Len(to_upsert[r]) >= 3
        /\ Len(sent[r]) = Len(to_upsert[r])
        /\ Keys(gcs_mapping) = RunIds(r)

\* a run that ended Done having gone through Embed, Upsert and Persist, with every
\* identifier it generated in the persisted mapping
DoneInFull(r) ==
    /\ pc[r] = "done"
    /\ {"embed", "upsert", "persist"} \subseteq stages[r]
    /\ RunIds(r) \subseteq Keys(gcs_mapping)
    /\ \A k \in 1..Len(to_upsert[r]) : to_upsert[r][k][1] \in Keys(gcs_mapping)

BadDocs(r) ==
    {f \in Range(files[r]) :
        ~bucket[f].readable \/ (~EndsWithTxt(f) /\ ~bucket[f].parsable)}

GoodDocs(r) == Range(files[r]) \ BadDocs(r)

\* the identifiers of the chunks of the readable documents of the run
GoodIds(r) ==
    UNION {{stable_uuid(namespace_of(gcs_prefix[r]), chunk_key(f, k - 1)) :
               k \in 1..Len(extract_chunks(f, bucket[f]))} : f \in GoodDocs(r)}

\* C4: with one document unreadable and the others readable (and no other
\* failure) the run is not aborted, and the provenance entries it writes are
\* exactly those of the readable documents.
C4_PartialFailure ==
    \A r \in SeqRuns :
        (/\ Ended(r)
         /\ \A x \in flts[r] : x[1] \in DocFaults
         /\ Cardinality(BadDocs(r)) = 1
         /\ GoodDocs(r) # {})
        => /\ pc[r] = "done"
           /\ RunIds(r) = GoodIds(r)
           /\ RunIds(r) \subseteq Keys(gcs_mapping)

\* C5: a failed embedding call does not fail the run, and the chunks of the
\* documents other than the one it aborts are still upserted and, when the run
\* ends, recorded in provenance.
C5_EmbedFailureLocal ==
    \A r \in SeqRuns :
        <<"embed", "">> \in flts[r] =>
            /\ pc[r] # "failed"
            /\ \E aborted \in Range(files[r]) :
                  \A cid \in RunIds(r) :
                      provenance[r][cid].src # aborted =>
                          /\ cid \in DOMAIN index
                          /\ Ended(r) => cid \in Keys(gcs_mapping)

C11_InjectiveIds ==
    kk # <<>> =>
        (kk[1] = kk[2] => kq.f1 = kq.f2 /\ kq.i1 = kq.i2)

\* two sources of which one continues the other with the separator and a number,
\* and two that differ in trailing digits only, have got their identifiers
C11_Witness ==
    /\ kk # <<>>
    /\ kk[1] # kk[2]
    /\ \/ kq.f1 = "a" \o "::chunk::" \o "1" /\ kq.i1 = 0 /\ kq.f2 = "a" /\ kq.i2 = 1
       \/ kq.f1 = "a1" /\ kq.i1 = 0 /\ kq.f2 = "a" /\ kq.i2 = 10

\* ------------------------------------------------------------------ the mapping: claims
\* the identifier of chunk number j (from 1) of file f in run r
ChunkId(r, f, j) == stable_uuid(namespace_of(gcs_prefix[r]), chunk_key(f, j - 1))

\* the identifiers of the chunks of the documents of run r, from the documents
DocIds(r) ==
    UNION {{ChunkId(r, f, j) : j \in 1..Len(extract_chunks(f, bucket[f]))} :
              f \in Range(files[r])}

\* C12: the mapping a run writes is the mapping it loaded overridden at exactly the
\* identifiers of the run: its keys are the loaded keys and the run's identifiers,
\* each identifier of the run maps to the source, chunk_index and text of the chunk
\* it was generated for, every other key keeps its loaded value, and the object
\* written holds all of it.
C12_MergedMapping ==
    \A r \in SeqRuns :
        (pc[r] = "done" /\ to_upsert[r] # <<>>) =>
            /\ gcs_mapping.exists
            /\ Keys(gcs_mapping) = DOMAIN existing[r] \cup DocIds(r)
            /\ \A f \in Range(files[r]) :
                  \A j \in 1..Len(extract_chunks(f, bucket[f])) :
                      gcs_mapping.data[ChunkId(r, f, j)] =
                          [source |-> f, chunk_index |-> j - 1,
                           text |-> extract_chunks(f, bucket[f])[j]]
            /\ \A cid \in DOMAIN existing[r] \ DocIds(r) :
                  gcs_mapping.data[cid] = existing[r][cid]

\* a run of two documents has written its mapping over a loaded mapping that held
\* the entries of another root
C12_Witness ==
    \E r \in SeqRuns :
        /\ pc[r] = "done"
        /\ Len(files[r]) >= 2
        /\ Len(to_upsert[r]) >= 3
        /\ DOMAIN existing[r] \ DocIds(r) # {}
        /\ DocIds(r) \ DOMAIN existing[r] # {}

\* the load of run r met a failure of exists(), of the download or of the parse
LoadFailed(r) == <<"load", "">> \in flts'[r]

\* C13: load_mapping_from_gcs never raises: the step that loads the mapping always
\* hands the run on to the file loop, and when the object does not exist or its
\* read or parse failed, the mapping the run continues from is the empty one.
C13_LoadNeverRaises ==
    [][\A r \in SeqRuns :
          pc[r] = "load" =>
              /\ pc'[r] = "for_files"
              /\ (LoadFailed(r) \/ ~gcs_mapping.exists) =>
                     existing'[r] = EmptyMap /\ mapping'[r] = EmptyMap]_vars

\* a run whose load failed while the object held entries went on from the empty
\* mapping to its end
C13_Witness ==
    \E r \in SeqRuns :
        /\ pc[r] = "done"
        /\ <<"load", "">> \in flts[r]
        /\ Keys(started[r].gcs_mapping) # {}
        /\ existing[r] = EmptyMap
        /\ to_upsert[r] # <<>>

\* the identifiers of the vector records run r upserted
SentIds(r) == {sent[r][k].datapoint_id : k \in 1..Len(sent[r])}

\* C14: a failure of the save of the provenance mapping is not caught: the run that
\* met it ends in failure, not Done; so a run that ends Done has a persisted entry
\* for every vector record it upserted.
C14_SaveFailureFatal ==
    \A r \in SeqRuns :
        /\ <<"save", "">> \in flts[r] => pc[r] = "failed"
        /\ pc[r] = "done" => SentIds(r) \subseteq Keys(gcs_mapping)

\* a run upserted all its vector records, wrote the local copy, failed to save the
\* mapping and ended in failure, the persisted mapping lacking its entries
C14_Witness ==
    \E r \in SeqRuns :
        /\ pc[r] = "failed"
        /\ <<"save", "">> \in flts[r]
        /\ Len(sent[r]) >= 3
        /\ local_mapping = Blob(mapping[r])
        /\ ~(SentIds(r) \subseteq Keys(gcs_mapping))

\* ------------------------------------------------------------------ build_and_upsert: claims
\* discovery has answered run r, and every document it found (there may be none) is
\* read and yields zero chunks
NothingToUpsert(r) ==
    /\ pc[r] \notin {"idle", "list"}
    /\ <<"list", "">> \notin flts[r]
    /\ \A f \in Range(list_gcs_files(bucket, gcs_prefix[r])) :
          bucket[f].readable /\ extract_chunks(f, bucket[f]) = <<>>

\* run r has made no embedding call, no upsert call and no write of the local or of
\* the persisted mapping
NoWork(r) ==
    /\ stages[r] \subseteq {"discover", "extract"}
    /\ sent[r] = <<>>
    /\ index = started[r].index
    /\ local_mapping = started[r].local_mapping
    /\ gcs_mapping = started[r].gcs_mapping

\* C15: when discovery finds zero documents, or every discovered document yields
\* zero chunks, build_and_upsert does not fail, ends by a normal return, and makes
\* no embedding call, no upsert call and no write to the local or to the persisted
\* mapping.
C15_NothingToUpsert ==
    \A r \in SeqRuns :
        NothingToUpsert(r) =>
            /\ pc[r] \in {"load", "for_files", "done"}
            /\ NoWork(r)

\* a run of two documents without text returned, after an earlier run had filled
\* the index and the mappings
C15_Witness ==
    \E r \in SeqRuns :
        /\ NothingToUpsert(r)
        /\ pc[r] = "done"
        /\ Len(files[r]) >= 2
        /\ fpos[r] > Len(files[r])
        /\ Keys(gcs_mapping) # {}
        /\ DOMAIN index # {}
        /\ local_mapping.exists

\* run r makes its embedding call in this step
EmbedCall(r) == "embed" \notin stages[r] /\ "embed" \in stages'[r]

\* run r makes an upsert call in this step: a batch is accepted or the call fails
UpsertCall(r) ==
    \/ Len(sent'[r]) > Len(sent[r])
    \/ <<"upsert", "">> \in flts'[r] \ flts[r]

\* run r writes, or fails to write, the local or the persisted mapping in this step
MappingWrite(r) ==
    \/ local_mapping' # local_mapping
    \/ gcs_mapping' # gcs_mapping
    \/ "persist" \notin stages[r] /\ "persist" \in stages'[r]
    \/ <<"save", "">> \in flts'[r] \ flts[r]

\* every discovered document of run r has been extracted and chunked
AllExtracted(r) ==
    /\ files[r] = list_gcs_files(bucket, gcs_prefix[r])
    /\ fpos[r] > Len(files[r])
    /\ {to_upsert[r][k][1] : k \in 1..Len(to_upsert[r])} = DocIds(r)

\* C16: within a run, the embedding call and every upsert call come after every
\* discovered document has been extracted and chunked; every upsert call comes
\* after the embedding call, which is given the chunks of all the documents; the
\* mapping is written only after all the upsert batches have been accepted.
C16_Ordering ==
    [][\A r \in SeqRuns :
          /\ EmbedCall(r) => AllExtracted(r) /\ sent[r] = <<>>
          /\ UpsertCall(r) =>
                 /\ AllExtracted(r)
                 /\ "embed" \in stages[r]
                 /\ \A k \in 1..Len(dps[r]) : dps[r][k].datapoint_id = to_upsert[r][k][1]
          /\ MappingWrite(r) =>
                 /\ "embed" \in stages[r]
                 /\ bpos[r] >= Len(dps[r])
                 /\ sent[r] = dps[r]]_vars

\* a run of two documents and more than one upsert batch has gone through every
\* stage and saved its mapping
C16_Witness ==
    \E r \in SeqRuns :
        /\ pc[r] = "done"
        /\ stages[r] = {"discover", "extract", "embed", "upsert", "persist"}
        /\ Len(files[r]) >= 2
        /\ Len(sent[r]) > BATCH
        /\ gcs_mapping # started[r].gcs_mapping

\* ------------------------------------------------------------------ retrieve_documents: claims
\* the call of retrieve_documents has ended, by a return or by an exception
Retrieved == rt.pc # "off"

\* a call inside retrieve_documents failed
RetrieveFailed == rq.embed # "ok" \/ rq.search.kind # "ok"

\* the matches of the response, in the order the index gave them
Matches ==
    IF rq.search.response.nearest_neighbors = <<>> THEN <<>>
    ELSE rq.search.response.nearest_neighbors[1].neighbors

ErrorTexts ==
    {"embed_content failed", "list index out of range", "find_neighbors failed",
     "object has no attribute 'nearest_neighbors'"}

ErrorMessages == {ErrorMessage(e) : e \in ErrorTexts}

C18_NeverRaises ==
    Retrieved =>
        /\ rt.pc = "returned"
        /\ RetrieveFailed => rt.result \in ErrorMessages /\ rt.chunks = <<>>

\* the embedding succeeded, the k-NN query raised, and the call returned the error
\* message of that failure
C18_Witness ==
    /\ Retrieved
    /\ rq.embed = "ok"
    /\ rq.search.kind = "raise"
    /\ Len(rt.calls) = 2
    /\ rt.result = ErrorMessage("find_neighbors failed")

\* the contents of the matches that have one, in the order of the matches
RECURSIVE ContentsInOrder(_)
ContentsInOrder(ms) ==
    IF ms = <<>> THEN <<>>
    ELSE LET c == match_content(Head(ms).datapoint)
         IN (IF c.some /\ c.val # "" THEN <<c.val>> ELSE <<>>) \o ContentsInOrder(Tail(ms))

\* C19: retrieve_documents makes exactly one embedding call, with the query text as
\* its single content, and at most one k-NN query, exactly one unless the embedding
\* failed; when no call fails it returns the contents of the matches in the order
\* the index returned them, none moved, repeated or dropped, joined by blank lines.
C19_OneQueryInOrder ==
    Retrieved =>
        /\ rt.calls[1] = EmbedContentCall(<<rq.query>>)
        /\ Len(rt.calls) = IF rq.embed = "ok" THEN 2 ELSE 1
        /\ Len(rt.calls) = 2 => rt.calls[2] = FindNeighborsCall(rq.num_results)
        /\ ~RetrieveFailed =>
               /\ rt.chunks = ContentsInOrder(Matches)
               /\ rt.chunks # <<>> => rt.result = join_chunks("\n\n", ContentsInOrder(Matches))

\* two matches with different contents, the first from its restrict and the second
\* from its crowding attribute, were returned in that order
C19_Witness ==
    /\ Retrieved
    /\ ~RetrieveFailed
    /\ rq.num_results = 5
    /\ Len(Matches) = 2
    /\ rt.chunks = <<"y", "c">>
    /\ rt.result = "y" \o "\n\n" \o "c"

\* the primary field of a datapoint: the first allow-list value of the restrict with
\* namespace "content" (the first such restrict that has values); "" when there is
\* no such restrict
PrimaryField(dp) ==
    LET ks == {k \in 1..Len(dp.restricts) :
                  dp.restricts[k].namespace = "content" /\ dp.restricts[k].allow_list # <<>>}
    IN IF ks = {} THEN ""
       ELSE dp.restricts[CHOOSE k \in ks : \A m \in ks : k <= m].allow_list[1]

\* the secondary field: the crowding attribute; the index reports "0" for a
\* datapoint that was given none
SecondaryField(dp) == dp.crowding_attribute

PrimaryPopulated(dp) == PrimaryField(dp) # ""

SecondaryPopulated(dp) == SecondaryField(dp) \notin {"", "0"}

\* the content the fallback order gives a match: <<v>>, or <<>> for no content
FallbackContent(dp) ==
    IF PrimaryPopulated(dp) THEN <<PrimaryField(dp)>>
    ELSE IF SecondaryPopulated(dp) THEN <<SecondaryField(dp)>>
    ELSE <<>>

RECURSIVE FallbackContents(_)
FallbackContents(ms) ==
    IF ms = <<>> THEN <<>>
    ELSE FallbackContent(Head(ms).datapoint) \o FallbackContents(Tail(ms))

\* C20: for each match _extract_content_from_response takes the primary field (the
\* first allow-list value of the restrict with namespace "content") when it is
\* populated, otherwise the secondary field (the crowding attribute, "0" being the
\* value of an unset one) when it is populated, otherwise nothing, without raising;
\* the secondary field is never taken when the primary one is populated.
C20_FallbackOrder ==
    (Retrieved /\ ~RetrieveFailed) =>
        /\ rt.pc = "returned"
        /\ rt.chunks = FallbackContents(Matches)
        /\ \A j \in 1..Len(Matches) :
              PrimaryPopulated(Matches[j].datapoint) =>
                  match_content(Matches[j].datapoint) =
                      Some(PrimaryField(Matches[j].datapoint))

\* of two matches the first has both fields populated and gave its primary field,
\* the second has neither populated and gave nothing
C20_Witness ==
    /\ Retrieved
    /\ ~RetrieveFailed
    /\ Len(Matches) = 2
    /\ PrimaryPopulated(Matches[1].datapoint) /\ SecondaryPopulated(Matches[1].datapoint)
    /\ ~PrimaryPopulated(Matches[2].datapoint) /\ SecondaryField(Matches[2].datapoint) = "0"
    /\ rt.chunks = <<PrimaryField(Matches[1].datapoint)>>

\* ------------------------------------------------------------------ upsert_docs: claims
\* the first n elements of a list
Prefix(s, n) == SubSeq(s, 1, n)

\* C21: upsert_docs sends the datapoints in batches of at most BATCH records, and
\* the batches, in the order sent, partition the datapoint list: every batch the
\* index accepts is the next at most BATCH datapoints of the list, at least one,
\* so what was sent is always a prefix of the list in its order, and when the
\* batch loop ends every datapoint has been sent exactly once.
C21_BatchPartition ==
    [][\A r \in SeqRuns :
          /\ Len(sent'[r]) > Len(sent[r]) =>
                 /\ Len(sent'[r]) - Len(sent[r]) <= BATCH
                 /\ Len(sent'[r]) - Len(sent[r]) = Min(BATCH, Len(dps[r]) - Len(sent[r]))
                 /\ sent[r] = Prefix(dps[r], Len(sent[r]))
                 /\ sent'[r] = Prefix(dps[r], Len(sent'[r]))
          /\ (pc[r] = "upsert_batches" /\ pc'[r] = "write_local") => sent[r] = dps[r]]_vars

\* the datapoints of all the chunks of a run were sent in more than one batch, the
\* last of them short, and the run went on to its end
C21_Witness ==
    \E r \in SeqRuns :
        /\ pc[r] = "done"
        /\ Len(dps[r]) = Len(to_upsert[r])
        /\ Len(dps[r]) > BATCH
        /\ Len(dps[r]) % BATCH # 0
        /\ sent[r] = dps[r]
        /\ \A j, k \in 1..Len(sent[r]) :
              sent[r][j].datapoint_id = sent[r][k].datapoint_id => j = k

\* ------------------------------------------------------------------ concurrent runs: claims
\* the mapping run r writes when it saves: the snapshot it loaded, overridden by
\* the entries of the chunks of its own documents
OwnMapping(r) ==
    [cid \in DOMAIN existing[r] \cup DocIds(r) |->
        IF cid \in DocIds(r)
        THEN CHOOSE e \in UNION {{[source |-> f, chunk_index |-> j - 1,
                                   text |-> extract_chunks(f, bucket[f])[j]] :
                                      j \in {j \in 1..Len(extract_chunks(f, bucket[f])) :
                                                ChunkId(r, f, j) = cid}} :
                                  f \in Range(files[r])} : TRUE
        ELSE existing[r][cid]]

\* run r saves the mapping in this step
Saves(r) == pc[r] = "save" /\ pc'[r] = "done"

\* C22: runs interleaved against one mapping location are not serialized and the
\* last writer wins: the persisted mapping changes only when a run saves, and the
\* save of a run leaves it equal to that run's loaded snapshot merged with that
\* run's entries, whatever another run persisted since the snapshot was loaded.
C22_LastWriterWins ==
    [][/\ gcs_mapping' # gcs_mapping => \E r \in Runs : Saves(r)
       /\ \A r \in Runs : Saves(r) => gcs_mapping' = Blob(OwnMapping(r))]_vars

\* both runs ended Done without a failure, each with chunks of its own root, and
\* the entries of one of them are absent from the persisted mapping
C22_Witness ==
    /\ \A r \in Runs : pc[r] = "done" /\ flts[r] = {} /\ to_upsert[r] # <<>>
    /\ gcs_prefix[1] # gcs_prefix[2]
    /\ \E r \in Runs :
          /\ RunIds(r) \cap Keys(gcs_mapping) = {}
          /\ RunIds(r) \subseteq DOMAIN index

\* C23: the local working copy mirrors the persisted mapping: whenever no run is in
\* progress and the most recent run to finish ended Done, the local file
\* vector_mapping.json and the object at mapping_uri hold the same mapping.
C23_LocalMirror ==
    \A r \in SeqRuns :
        pc[r] = "done" => local_mapping = gcs_mapping

\* ------------------------------------------------------------------ retrieval during ingestion: claims
\* what a retrieval finds for the vector record cid: no provenance entry, or one
\* whose text is not the content payload of the record
Inconsistent(cid) ==
    \/ cid \notin Keys(gcs_mapping)
    \/ gcs_mapping.data[cid].text # index[cid]

\* cid was upserted by a run that has not saved its provenance: the run in
\* progress or ended in failure, or the run before it when that one failed
InWindow(cid) ==
    \/ \E r \in SeqRuns : cid \in SentIds(r) /\ pc[r] # "done"
    \/ /\ prev.valid
       /\ prev.pc # "done"
       /\ \E k \in 1..Len(prev.sent) : prev.sent[k].datapoint_id = cid

\* C24: a retrieval, at any moment of any run or between runs, finds a vector
\* record whose provenance entry is missing or stale only between the upsert of
\* that record and the provenance save of the run that upserted it; once a run
\* has ended Done every identifier it upserted has an entry whose text is the
\* content payload upserted.
C24_ConsistencyWindow ==
    /\ \A cid \in DOMAIN index : Inconsistent(cid) => InWindow(cid)
    /\ \A r \in SeqRuns :
          pc[r] = "done" =>
              \A k \in 1..Len(sent[r]) :
                  /\ sent[r][k].datapoint_id \in Keys(gcs_mapping)
                  /\ gcs_mapping.data[sent[r][k].datapoint_id].text = sent[r][k].content

\* ------------------------------------------------------------------ provenance entries: claims
\* the identifiers of run r whose persisted entry names the source f
EntriesOf(r, f) == {cid \in RunIds(r) \cap Keys(gcs_mapping) : gcs_mapping.data[cid].source = f}

\* C25: for every document ingested in a run, the chunk ordinals of the provenance
\* entries the run writes for it are exactly 0, 1, ..., m-1, each once, m being
\* the number of chunks of the document, and the text of every entry is non-empty.
C25_ContiguousOrdinals ==
    \A r \in SeqRuns :
        (pc[r] = "done" /\ to_upsert[r] # <<>>) =>
            \A f \in Range(files[r]) :
                LET m == Len(extract_chunks(f, bucket[f]))
                IN /\ {gcs_mapping.data[cid].chunk_index : cid \in EntriesOf(r, f)} = 0..(m - 1)
                   /\ Cardinality(EntriesOf(r, f)) = m
                   /\ \A cid \in EntriesOf(r, f) : gcs_mapping.data[cid].text # <<>>

\* a run has written the entries of two documents with two chunks each
C25_Witness ==
    \E r \in SeqRuns :
        /\ pc[r] = "done"
        /\ Len(files[r]) = 2
        /\ \A f \in Range(files[r]) : Cardinality(EntriesOf(r, f)) = 2

\* ------------------------------------------------------------------ read_gcs_pdf_text: claims
\* the pieces of a text between its newlines
RECURSIVE SplitLines(_, _)
SplitLines(t, cur) ==
    IF t = <<>> THEN <<cur>>
    ELSE IF Head(t) = "\n" THEN <<cur>> \o SplitLines(Tail(t), <<>>)
    ELSE SplitLines(Tail(t), Append(cur, Head(t)))

\* C26: read_gcs_pdf_text is partial-extraction-tolerant: of a PDF the reader
\* accepts, with pages p1..pk, the result is the texts of the pages in page order,
\* one line per page, a page whose extraction fails giving the empty string and
\* every other page its own text; the call returns, and its result is not empty
\* when a page that does not fail has text.
C26_PageTolerance ==
    (pdf_out.pc # "off" /\ pdf_doc.doc.readable /\ pdf_doc.doc.parsable) =>
        LET pages == pdf_doc.doc.pages
        IN /\ pdf_out.pc = "returned"
           /\ pages = <<>> => pdf_out.text = <<>>
           /\ pages # <<>> =>
                  SplitLines(pdf_out.text, <<>>) =
                      [k \in 1..Len(pages) |-> IF pages[k].ok THEN pages[k].text ELSE <<>>]
           /\ (\E k \in 1..Len(pages) : pages[k].ok /\ pages[k].text # <<>>) =>
                  pdf_out.text # <<>>

\* a PDF of three pages, the second of which fails, gave the texts of the first
\* and of the third
C26_Witness ==
    /\ pdf_out.pc = "returned"
    /\ Len(pdf_doc.doc.pages) = 3
    /\ pdf_doc.doc.pages[1].ok /\ ~pdf_doc.doc.pages[2].ok /\ pdf_doc.doc.pages[3].ok
    /\ pdf_out.text = <<"a", "\n", "\n", "b", "c">>

\* ------------------------------------------------------------------ failed runs: claims
\* the embedding call or an upsert batch of run r failed
EmbedOrUpsertFailed(r) == <<"embed", "">> \in flts[r] \/ <<"upsert", "">> \in flts[r]

\* C27: when the embedding call or an upsert batch fails, the run ends in failure
\* without having modified the local working copy or the persisted mapping: both
\* hold what they held when the run began, while the vector records of the
\* batches the index accepted before the failure are in the index.
C27_FailureFrame ==
    \A r \in SeqRuns :
        EmbedOrUpsertFailed(r) =>
            /\ pc[r] = "failed"
            /\ local_mapping = started[r].local_mapping
            /\ gcs_mapping = started[r].gcs_mapping
            /\ \A k \in 1..Len(sent[r]) :
                  /\ sent[r][k].datapoint_id \in DOMAIN index
                  /\ index[sent[r][k].datapoint_id] = sent[r][k].content

\* after a first batch was accepted the second one failed; the records of the
\* first are new in the index, and the mappings an earlier run wrote are as they were
C27_Witness ==
    \E r \in SeqRuns :
        /\ <<"upsert", "">> \in flts[r]
        /\ Len(sent[r]) = BATCH
        /\ Len(dps[r]) > BATCH
        /\ SentIds(r) \cap DOMAIN started[r].index = {}
        /\ Keys(gcs_mapping) # {}
        /\ local_mapping = gcs_mapping

\* C28: in every run whose upsert step returned, upsert_docs built one datapoint
\* per chunk, whatever number of vectors the embedding call returned, and the
\* identifiers sent to the index are the identifiers the run writes provenance
\* entries for.
C28_SentEqualsWritten ==
    \A r \in SeqRuns :
        pc[r] \in {"write_local", "save", "done"} /\ to_upsert[r] # <<>> =>
            /\ Len(dps[r]) = Len(to_upsert[r])
            /\ SentIds(r) = DOMAIN provenance[r]
            /\ pc[r] = "done" => SentIds(r) = RunIds(r) \cap Keys(gcs_mapping)

\* ------------------------------------------------------------------ governance plugin: claims
\* the response the final row of a turn is to carry: the text of the final event
\* when one is given, else the intercept when the guardrail blocked the model call
\* in this turn, else the last model output of this turn
ExpectedResponse(row) ==
    IF row.event.given /\ row.event.final /\ row.event.text # "" THEN row.event.text
    ELSE IF row.seen.blocked # "" THEN row.seen.blocked
    ELSE row.seen.model_text

\* C29: over any sequence of turns the final row of each turn takes its response
\* from the final event if one is provided, else from the guardrail intercept only
\* if the guardrail blocked in that same turn, else from that turn's last model
\* output: a block of an earlier turn never decides the response of a later turn.
C29_ResponseOfTheTurn ==
    glog.nrows > 0 => glog.row.response = ExpectedResponse(glog.row)

\* C30: before_model_callback checks the guardrail first and redacts only when
\* the guardrail does not block: whenever it returns a blocking response, this
\* call has not changed the request text and has not set eval_tags.pii_redacted.
C30_GuardrailBeforeRedaction ==
    (glog.bm.valid /\ glog.bm.blocked) =>
        /\ glog.bm.text_after = glog.bm.text_before
        /\ ~glog.bm.pii_set
====
